---- MODULE Spec2Model ----
(***************************************************************************)
(* A model of slog-writer.  FileWriter (src/README.md, lines 72-366): the   *)
(* size-triggered rotating log writer, its lazy open, its rotation and the *)
(* background goroutine every successful rotation starts (stable symlink   *)
(* at the base path, pruning of old log files).                            *)
(*                                                                         *)
(* Write, Rotate and Close run with w.mu held from their first to their    *)
(* last statement, so each is one atomic action.  The goroutine started by *)
(* rotate() holds no lock: every file-system call it makes is a step of    *)
(* its own and interleaves with the handlers and with other goroutines.    *)
(*                                                                         *)
(* Time is counted in milliseconds, MsPerSec of them to a second; a        *)
(* handler reads the clock once, and never reads less than the reading     *)
(* before (the goroutines do not read the clock).  A file                  *)
(* name is the timestamp token fileArgs() puts between the base name and   *)
(* the extension; the pid suffix and the extension are the same for every  *)
(* file of one run and are left out of the token.                          *)
(*                                                                         *)
(* The second part models stack.go (Capture, Free, Take, FormatStack and   *)
(* the two sync.Pools) and the handler of logger.go.  A goroutine's call   *)
(* of Capture or Take is a sequence of steps, one for each use of a pool   *)
(* and each turn of the loop of Capture; a sync.Pool hands out any item it *)
(* holds, or a new one.  A piece of text is a sequence of items, one for   *)
(* every string and byte FormatFrame writes.                               *)
(***************************************************************************)
EXTENDS Integers, Sequences, FiniteSets, TLC

\* ---------------------------------------------------------------- bounds
MsPerSec == 3      \* milliseconds to a second (1000 in the program)
MaxRec == 2        \* longest record handed to Write
MaxOld == 1        \* bytes the log file of an earlier run holds
MaxClock == 3      \* the latest time a handler reads off the clock
MaxOps == 2        \* handler calls (Write, Rotate, Close) in one run
MaxBurst == 3      \* handler calls in a run of rotations in quick succession
MaxFaults == 1     \* injected I/O failures in one run
MaxTasks == 2      \* goroutines of rotate() alive at once
NumCallers == 2    \* concurrent callers of Write, of Take and of a logger
StorageSize == 2   \* entries of a new Stack's storage (64 in the program)
MaxDepth == 4      \* frames of the deepest call stack below a call
MaxCalls == 2      \* calls of Take, Capture and Handle in one run
MaxSkip == 1       \* largest skip handed to Capture and Take
MaxLoggers == 2    \* loggers built and derived in one run

\* ------------------------------------------------------------- constants
TimeFormatUnix == "\\x01"
TimeFormatUnixMs == "\\x02"

NoHook == -1       \* Header == nil
NoLink == -1       \* nothing at the base path
NoName == -1
Nil == [ino |-> 0, name |-> NoName]      \* w.file == nil
HdrByte == 0       \* a byte written by the Header hook
HandleSkip == 3    \* Take(3) in goIDHandler.Handle
NoGoid == 0        \* a record without the goid attribute
OldByte == -1      \* a byte written by an earlier run

Tokens == 0..MaxClock
Callers == 1..NumCallers

VARIABLES
    Filename,      \* TRUE: a path is configured; FALSE: Filename == ""
    MaxSize, MaxBackups, ProcessID, EnsureFolder,
    Header,        \* NoHook, or the number of bytes the hook returns (0: nil)
    Cleaner,       \* TRUE: a Cleaner hook is set
    TimeFormat,
    file,          \* w.file: Nil or [ino, name]
    size,          \* w.size
    dir,           \* the log directory: token -> inode (0: no such file)
    ino,           \* inodes, in creation order: [content, mtime]
    link,          \* the entry at the base path: NoLink or the token it names
    open,          \* file handles the writer has opened and not closed
    tasks,         \* the goroutines of rotate() that are still running
    now,           \* the last reading of the clock, in milliseconds
    stderr,        \* bytes sent to os.Stderr
    lim,           \* the bounds of this run: [ops, faults, tasks, callers]
    nOps, nFaults, \* handler calls made, I/O failures injected
    last,          \* what the last handler call did and returned
    ret,           \* per caller: the result of its last Write
    hist,          \* facts about the run so far
    stackPool,     \* stack.go: the pooled Stacks, by the length of storage
    bufferPool,    \* stack.go: the pooled bytes.Buffers, by their content
    gs,            \* per goroutine: the call of Capture, Take or Handle it is in
    nCalls,        \* calls of Capture, Take and Handle started
    loggers,       \* logger.go: the handlers of the loggers built so far
    emitted        \* the records handed to the JSON handler

cfgVars == <<Filename, MaxSize, MaxBackups, ProcessID, EnsureFolder, Header,
             Cleaner, TimeFormat>>
fsVars == <<dir, ino, link>>
wVars == <<file, size, open>>
writerVars == <<cfgVars, wVars, fsVars, tasks, now, stderr, lim, nOps,
                nFaults, last, ret, hist>>
stackVars == <<stackPool, bufferPool, gs, nCalls>>
logVars == <<loggers, emitted>>
vars == <<writerVars, stackVars, logVars>>

Min(a, b) == IF a < b THEN a ELSE b
Rep(x, n) == [i \in 1..n |-> x]

\* ------------------------------------------------------------ fileArgs
\* The timestamp token of the file name for time t (src lines 340-349): the
\* Unix second for TimeFormatUnix and for the default layout, whose finest
\* field is the second; the Unix millisecond for TimeFormatUnixMs.
fileArgs(t) ==
    IF TimeFormat = TimeFormatUnixMs THEN t ELSE t \div MsPerSec

\* ModTime().Unix(), the key sort.Slice compares (src line 287).
ModTimeUnix(i) == ino[i].mtime \div MsPerSec

\* The part of the state the handlers' code reads and writes.
World == [file |-> file, size |-> size, dir |-> dir, ino |-> ino,
          link |-> link, open |-> open, stderr |-> stderr,
          \* what the call did and returns
          n |-> 0, err |-> "nil", spawn |-> NoName, hit |-> FALSE,
          added |-> FALSE, afterAdd |-> 0, before |-> 0, rot |-> FALSE,
          swapped |-> FALSE, closedOld |-> FALSE, hdrN |-> 0,
          created |-> FALSE, base |-> 0]

\* os.OpenFile(name, O_APPEND|O_CREATE|O_WRONLY, perm) succeeding: an
\* existing file is opened as it is, a missing one is created empty.
OpenFile(s, name, t) ==
    IF s.dir[name] # 0
    THEN [s EXCEPT !.file = [ino |-> s.dir[name], name |-> name],
                   !.base = Len(s.ino[s.dir[name]].content),
                   !.open = @ + 1]
    ELSE [s EXCEPT !.ino = Append(@, [content |-> <<>>, mtime |-> t]),
                   !.dir[name] = Len(s.ino) + 1,
                   !.file = [ino |-> Len(s.ino) + 1, name |-> name],
                   !.base = 0,
                   !.open = @ + 1]

\* (*os.File).Write of n bytes tagged b at time t to the open file.
FileWrite(s, b, n, t) ==
    IF n = 0 THEN s
    ELSE [s EXCEPT !.ino[s.file.ino].content = @ \o Rep(b, n),
                   !.ino[s.file.ino].mtime = t]
\* -------------------------------------------------------------- create
\* The lazy open of the first Write (src lines 302-329).  f names the I/O
\* call that fails in this handler call ("none": nothing fails) and k the
\* bytes a failing write still transfers.
create(s, t, f, k) ==
    IF f = "copen"
    THEN [s EXCEPT !.file = Nil, !.err = "open", !.hit = TRUE]
    ELSE
      LET s1 == [OpenFile(s, fileArgs(t), t) EXCEPT !.created = TRUE]
          \* w.size = 0; st, err := w.file.Stat(); if err == nil { size = st.Size() }
          s2 == [s1 EXCEPT !.size = IF f = "cstat" THEN 0
                                    ELSE Len(s1.ino[s1.file.ino].content),
                           !.hit = (f = "cstat")]
          hdr == s2.size = 0 /\ Header # NoHook /\ Header > 0
          n == IF ~hdr THEN 0
               ELSE IF f = "chdr" THEN Min(k, Header - 1) ELSE Header
          s3 == [FileWrite(s2, HdrByte, n, t) EXCEPT !.size = @ + n,
                                                     !.hdrN = n]
      IN IF hdr /\ f = "chdr"
         THEN [s3 EXCEPT !.err = "hdr", !.hit = TRUE]
         ELSE \* err = os.Remove(w.Filename); the symlink; return
              [s3 EXCEPT !.err = IF s3.link = NoLink THEN "ENOENT" ELSE "nil",
                         !.link = IF ProcessID THEN NoLink ELSE s3.file.name]

\* -------------------------------------------------------------- rotate
\* rotate() up to the start of its goroutine (src lines 223-247, 297-299).
\* spawn is the name handed to the goroutine, NoName when none is started.
rotateClosesFirst(s) ==
    [s EXCEPT !.err = "open", !.hit = TRUE, !.rot = TRUE,
              !.open = IF s.file # Nil THEN @ - 1 ELSE @,
              !.file = Nil, !.size = 0]

\* The replacement file cannot be opened (src lines 225-228): rotate()
\* returns the error before it touches the writer.
rotateOpenFailed(s) ==
    [s EXCEPT !.err = "open", !.hit = TRUE, !.rot = TRUE]

rotate(s, t, f, k) ==
    IF f = "ropen"
    THEN rotateOpenFailed(s)
    ELSE
      LET old == s.file
          s1 == OpenFile(s, fileArgs(t), t)
          s2 == [s1 EXCEPT !.open = IF old # Nil THEN @ - 1 ELSE @,
                           !.closedOld = (old # Nil),
                           !.size = 0, !.hdrN = 0,
                           !.swapped = TRUE, !.rot = TRUE]
          hdr == Header > 0
          n == IF ~hdr THEN 0
               ELSE IF f = "rhdr" THEN Min(k, Header - 1) ELSE Header
          s3 == [FileWrite(s2, HdrByte, n, t) EXCEPT !.size = @ + n,
                                                     !.hdrN = n]
      IN IF Header = NoHook THEN [s2 EXCEPT !.spawn = s2.file.name]
         ELSE IF f = "rstat" THEN [s2 EXCEPT !.err = "stat", !.hit = TRUE]
         ELSE IF hdr /\ f = "rhdr"
              THEN [s3 EXCEPT !.err = "nil", !.hit = TRUE]   \* src line 244
         ELSE [s3 EXCEPT !.spawn = s3.file.name]

\* --------------------------------------------------------------- write
ExceedsAtThreshold(sz) == MaxSize > 0 /\ sz >= MaxSize /\ Filename

\* The rotation test of write() (src line 192) on the counter sz.
Exceeds(sz) == MaxSize > 0 /\ sz > MaxSize /\ Filename

fallbackCounts(s, len, f, k) ==
    IF f = "stderr"
    THEN [s EXCEPT !.stderr = @ + Min(k, len - 1), !.n = Min(k, len - 1),
                   !.size = @ + Min(k, len - 1),
                   !.err = "stderr", !.hit = TRUE]
    ELSE [s EXCEPT !.stderr = @ + len, !.n = len, !.size = @ + len]

\* No Filename and no open file (src lines 170-173):
\* n, err = os.Stderr.Write(p); return.
fallback(s, len, f, k) ==
    IF f = "stderr"
    THEN [s EXCEPT !.stderr = @ + Min(k, len - 1), !.n = Min(k, len - 1),
                   !.err = "stderr", !.hit = TRUE]
    ELSE [s EXCEPT !.stderr = @ + len, !.n = len]

\* write() (src lines 168-197) of a record of len bytes tagged id.
write(s, len, id, t, f, k) ==
    LET opened ==
          IF s.file # Nil THEN s
          ELSE IF EnsureFolder /\ f = "mkdir"
               THEN [s EXCEPT !.err = "mkdir", !.hit = TRUE]
          ELSE create(s, t, f, k)
    IN
    IF s.file = Nil /\ ~Filename
    THEN fallback(s, len, f, k)
    ELSE IF opened.err # "nil" THEN opened
    ELSE IF f = "write"
    THEN LET n == Min(k, len - 1)
         IN [FileWrite(opened, id, n, t) EXCEPT
                !.n = n, !.err = "write", !.hit = TRUE,
                !.before = opened.file.ino]
    ELSE
      LET w1 == [FileWrite(opened, id, len, t) EXCEPT
                    !.n = len, !.size = @ + len, !.added = TRUE,
                    !.afterAdd = opened.size + len,
                    !.before = opened.file.ino]
      IN IF Exceeds(w1.size)
         THEN rotate(w1, t, f, k)
         ELSE w1
\* ------------------------------------------------------------ handlers
Faults == {"none", "stderr", "mkdir", "copen", "cstat", "chdr", "write",
           "ropen", "rstat", "rhdr", "close"}
Partial == {"stderr", "chdr", "write", "rhdr"}

\* A handler call may run while the bounds of the run leave room for it.
CanCall(t, f, k) ==
    /\ nOps < lim.ops
    /\ t >= now
    /\ Len(tasks) < lim.tasks
    /\ f # "none" => nFaults < lim.faults
    /\ k # 0 => f \in Partial

NewTask(name) == [newName |-> name, pc |-> "remove", matches |-> <<>>, i |-> 0]

\* What a handler call leaves behind, r being the world it returns.
Commit(op, t, r, f) ==
    /\ f # "none" => r.hit
    /\ file' = r.file
    /\ size' = r.size
    /\ open' = r.open
    /\ dir' = r.dir
    /\ ino' = r.ino
    /\ link' = r.link
    /\ stderr' = r.stderr
    /\ tasks' = IF r.spawn # NoName THEN Append(tasks, NewTask(r.spawn))
                ELSE tasks
    /\ nOps' = nOps + 1
    /\ nFaults' = IF f = "none" THEN nFaults ELSE nFaults + 1
    /\ hist' = [hist EXCEPT
          !.nRot = IF r.swapped THEN @ + 1 ELSE @,
          !.ever = IF r.file # Nil THEN @ \cup {r.file.name} ELSE @,
          !.lastRot = IF r.swapped THEN r.file.name ELSE @,
          !.allSpawned = @ /\ (r.swapped => r.spawn # NoName),
          !.lazy = IF r.swapped THEN FALSE ELSE (@ \/ r.created),
          !.written = @ + r.n,
          !.clean = @ /\ r.err = "nil",
          !.onlyWrites = @ /\ op = "Write",
          !.closeFailed = @ \/ (op = "Close" /\ r.err # "nil"),
          !.rotFailed = @ \/ (op = "Write" /\ r.rot /\ ~r.swapped),
          !.retry = IF op = "Write" /\ r.rot /\ ~r.swapped /\ r.err = "open"
                    THEN TRUE
                    ELSE IF r.swapped \/ op = "Close" THEN FALSE ELSE @,
          !.retried = hist.retry,
          !.afterWriteRot = (last.op = "Write" /\ last.swapped)]
    /\ now' = t
    /\ UNCHANGED <<cfgVars, lim, stackVars, logVars>>

Result(op, c, len, id, f, r) ==
    [op |-> op, by |-> c, len |-> len, id |-> id, fault |-> f,
     n |-> r.n, err |-> r.err, added |-> r.added, afterAdd |-> r.afterAdd,
     before |-> r.before, rot |-> r.rot, swapped |-> r.swapped,
     closedOld |-> r.closedOld, spawned |-> (r.spawn # NoName),
     hdrN |-> r.hdrN, created |-> r.created, base |-> r.base,
     prevInodes |-> Len(ino),
     prevFile |-> file, prevSize |-> size, prevOpen |-> open]

\* Write (src lines 161-166): caller c writes a record of len bytes; t is
\* what time.Now() returns in this call.
Write(c, len, t, f, k) ==
    /\ CanCall(t, f, k)
    /\ c <= lim.callers
    /\ f # "close"
    /\ LET id == nOps + 1
           r == write(World, len, id, t, f, k)
       IN /\ Commit("Write", t, r, f)
          /\ last' = Result("Write", c, len, id, f, r)
          /\ ret' = [ret EXCEPT ![c] = [n |-> r.n, err |-> r.err, id |-> id,
                                        len |-> len, calls |-> @.calls + 1]]

\* Rotate (src lines 216-221).
Rotate(t, f, k) ==
    /\ CanCall(t, f, k)
    /\ f \in {"none", "ropen", "rstat", "rhdr"}
    /\ LET r == rotate(World, t, f, k)
       IN /\ Commit("Rotate", t, r, f)
          /\ last' = Result("Rotate", 0, 0, 0, f, r)
          /\ ret' = ret

\* Close (src lines 200-209).
closeForgetsHandle(s, f) ==
    IF s.file = Nil THEN s
    ELSE [s EXCEPT !.err = IF f = "close" THEN "close" ELSE "nil",
                   !.hit = (f = "close"), !.file = Nil, !.size = 0]

closeKeepsSizeOnError(s, f) ==
    IF s.file = Nil THEN s
    ELSE [s EXCEPT !.err = IF f = "close" THEN "close" ELSE "nil",
                   !.hit = (f = "close"),
                   !.open = @ - 1, !.file = Nil,
                   !.size = IF f = "close" THEN @ ELSE 0]

close(s, f) ==
    IF s.file = Nil THEN s
    ELSE [s EXCEPT !.err = IF f = "close" THEN "close" ELSE "nil",
                   !.hit = (f = "close"),
                   !.open = @ - 1, !.file = Nil, !.size = 0]

Close(f) ==
    /\ CanCall(now, f, 0)
    /\ f \in {"none", "close"}
    /\ LET r == close(World, f)
       IN /\ Commit("Close", now, r, f)
          /\ last' = Result("Close", 0, 0, 0, f, r)
          /\ ret' = ret

\* ------------------------------------------- the goroutine of rotate()
RemoveAt(q, j) == SubSeq(q, 1, j - 1) \o SubSeq(q, j + 1, Len(q))

\* os.Remove(w.Filename) (src line 250); it fails when Filename == "".
TaskRemove(j) ==
    /\ j \in 1..Len(tasks)
    /\ tasks[j].pc = "remove"
    /\ link' = IF Filename THEN NoLink ELSE link
    /\ tasks' = [tasks EXCEPT ![j].pc = IF ProcessID THEN "readdir"
                                        ELSE "symlink"]
    /\ UNCHANGED <<cfgVars, wVars, dir, ino, now, stderr, lim, nOps, nFaults,
                   last, ret, hist, stackVars, logVars>>

\* os.Symlink(newName, w.Filename) (src lines 251-253): it fails, and is
\* ignored, when the base path holds an entry.  The ownership fixup that
\* follows (src lines 255-260) changes nothing modelled here.  With
\* Filename == "" there is no path to link at.
TaskSymlink(j) ==
    /\ j \in 1..Len(tasks)
    /\ tasks[j].pc = "symlink"
    /\ link' = IF link = NoLink /\ Filename THEN tasks[j].newName ELSE link
    /\ tasks' = [tasks EXCEPT ![j].pc = "readdir"]
    /\ UNCHANGED <<cfgVars, wVars, dir, ino, now, stderr, lim, nOps, nFaults,
                   last, ret, hist, stackVars, logVars>>

\* The names Readdir returns that pass the filter of src lines 278-285:
\* every log file of the directory; the entry at the base path is left out.
\* With Filename == "" the prefix is ".." and no file rotate() made has it.
Listing == IF Filename THEN {n \in Tokens : dir[n] # 0} ELSE {}

\* The orders sort.Slice (src lines 286-288) can leave the listing in:
\* ascending in ModTime().Unix(), files of the same second in any order.
SortedOrders(S) ==
    {q \in [1..Cardinality(S) -> S] :
        /\ \A a, b \in 1..Cardinality(S) : a # b => q[a] # q[b]
        /\ \A a, b \in 1..Cardinality(S) :
              a < b => ModTimeUnix(dir[q[a]]) <= ModTimeUnix(dir[q[b]])}

\* How many entries the default cleanup removes (src line 293).
Doomed(n) == n - MaxBackups - 1

\* Readdir, the filter and the sort (src lines 262-288).  With a Cleaner the
\* hook gets the list and the goroutine ends; so it does when the default
\* loop has nothing to remove.
TaskReaddir(j) ==
    /\ j \in 1..Len(tasks)
    /\ tasks[j].pc = "readdir"
    /\ \E q \in SortedOrders(Listing) :
         /\ tasks' = IF Cleaner \/ Doomed(Len(q)) <= 0
                     THEN RemoveAt(tasks, j)
                     ELSE [tasks EXCEPT ![j].pc = "clean", ![j].i = 0,
                              ![j].matches = SubSeq(q, 1, Doomed(Len(q)))]
         /\ hist' = [hist EXCEPT
               !.listedActive = @ \/ (file # Nil /\ file.name \in Listing),
               !.passes = @ + 1]
    /\ UNCHANGED <<cfgVars, wVars, fsVars, now, stderr, lim, nOps, nFaults,
                   last, ret, stackVars, logVars>>

\* One turn of the default cleanup loop (src lines 293-295):
\* os.Remove(matches[i]), by name.
TaskClean(j) ==
    /\ j \in 1..Len(tasks)
    /\ tasks[j].pc = "clean"
    /\ LET t == tasks[j]
           name == t.matches[t.i + 1]
       IN /\ dir' = [dir EXCEPT ![name] = 0]
          /\ tasks' = IF t.i + 1 >= Len(t.matches)
                      THEN RemoveAt(tasks, j)
                      ELSE [tasks EXCEPT ![j].i = t.i + 1]
          /\ hist' = [hist EXCEPT
                !.removed = @ \cup (IF dir[name] # 0 THEN {name} ELSE {}),
                !.maxRemoved = IF dir[name] # 0 /\ ModTimeUnix(dir[name]) > @
                               THEN ModTimeUnix(dir[name]) ELSE @,
                !.removedActive = @ \/ (file # Nil /\ dir[name] = file.ino)]
    /\ UNCHANGED <<cfgVars, wVars, ino, link, now, stderr, lim, nOps, nFaults,
                   last, ret, stackVars, logVars>>

\* ------------------------------------------------------------ stack.go
\* A goroutine outside every call of Capture, Take and Handle.
Idle == [pc |-> "idle", kind |-> "none", d |-> 0, skip |-> 0,
         depth |-> "Full", storage |-> 0, room |-> 0, cur |-> <<>>,
         walks |-> 0, pcs |-> <<>>, frames |-> <<>>, k |-> 0, buf |-> <<>>,
         got |-> <<>>, result |-> <<>>, logger |-> 0]

Depths == {"First", "Full"}

\* runtime.Callers(skip+2, pcs) as Capture calls it (stack.go lines 53-56,
\* 65) on a stack of d frames counted from the caller of Capture, into a
\* slice of n entries: the frames after the skipped ones, innermost first,
\* cut off where the slice is full.
runtimeCallers(d, skip, n) ==
    [j \in 1..Min(n, IF d > skip THEN d - skip ELSE 0) |-> skip + j]

\* The pieces of text FormatFrame writes for the frame at position p of
\* the stack: the function name, the file name and strconv.Itoa of the line.
NL == <<"\n">>
TAB == <<"\t">>
COLON == <<":">>
Function(p) == <<"func", p>>
File(p) == <<"file", p>>
Line(p) == <<"line", p>>

\* NewFormatter (stack.go lines 125-127).
NewFormatter(b) == [b |-> b, nonEmpty |-> FALSE]

\* FormatFrame (stack.go lines 141-152).
FormatFrame(sf, p) ==
    [b |-> sf.b \o (IF sf.nonEmpty THEN <<NL>> ELSE <<>>)
               \o <<Function(p), NL, TAB, File(p), COLON, Line(p)>>,
     nonEmpty |-> TRUE]

FormatStackAll(sf, fr) ==
    LET Walk[i \in 0..Len(fr)] ==
          IF i = 0 THEN sf ELSE FormatFrame(Walk[i - 1], fr[i])
    IN Walk[Len(fr)]

\* FormatStack (stack.go lines 131-138) on the frames fr the iterator of
\* the Stack still holds: Next() hands out the frames in order, with
\* more = FALSE for the last one and when there is none; the loop formats
\* a frame only when more is TRUE.
RECURSIVE FormatStack(_, _)
FormatStack(sf, fr) ==
    IF Len(fr) = 0 THEN sf
    ELSE LET more == Len(Tail(fr)) > 0
         IN IF more THEN FormatStack(FormatFrame(sf, Head(fr)), Tail(fr))
            ELSE sf

\* The start of Capture(skip, depth) (stack.go lines 41-56) by goroutine g in
\* a call of kind kind, on a stack of d frames counted from the caller of
\* Capture: stackPool.Get() hands out a pooled Stack or a new one, and
\* runtime.Callers walks the stack once.
capture(g, kind, d, skip, depth, l) ==
    /\ gs[g].pc = "idle"
    /\ g <= lim.callers
    /\ nCalls < lim.ops
    /\ \E i \in 0..Len(stackPool) :
          LET storage == IF i = 0 THEN StorageSize ELSE stackPool[i]
              room == IF depth = "First" THEN 1 ELSE storage
              cur == runtimeCallers(d, skip, room)
          IN /\ stackPool' = IF i = 0 THEN stackPool ELSE RemoveAt(stackPool, i)
             /\ gs' = [gs EXCEPT ![g] =
                   [Idle EXCEPT !.kind = kind, !.d = d,
                                !.skip = skip, !.depth = depth, !.logger = l,
                                !.storage = storage, !.room = room,
                                !.cur = cur, !.walks = 1,
                                \* depth First: stack.pcs = stack.pcs[:numFrames]
                                !.pcs = IF depth = "First" THEN cur ELSE <<>>,
                                !.frames = IF depth = "First" THEN cur ELSE <<>>,
                                !.pc = IF depth = "First" THEN "format"
                                       ELSE "grow"]]
    /\ nCalls' = nCalls + 1

\* Capture called by the program itself; it formats the Stack into a buffer
\* of its own and frees it.
Capture(g, d, skip, depth) ==
    /\ capture(g, "Capture", d, skip, depth, 0)
    /\ UNCHANGED <<writerVars, bufferPool, logVars>>

\* Take(skip) (stack.go lines 105-106): Capture(skip+1, Full), with the
\* frame of Take on the stack.
Take(g, d, skip) ==
    /\ capture(g, "Take", d + 1, skip + 1, "Full", 0)
    /\ UNCHANGED <<writerVars, bufferPool, logVars>>

CaptureStopsWhenFull(a) == FALSE

\* The test of the loop of Capture (stack.go line 63) in the walk a.
CaptureMustGrow(a) == Len(a.cur) = a.room

\* The loop of Capture for depth Full (stack.go lines 61-72): while the walk
\* filled the slice, a slice twice as long and another walk; then the slice
\* becomes the storage and its filled part the pcs.
CaptureGrow(g) ==
    /\ gs[g].pc = "grow"
    /\ gs' = [gs EXCEPT ![g] =
          IF CaptureMustGrow(@)
          THEN [@ EXCEPT !.room = 2 * @,
                         !.cur = runtimeCallers(gs[g].d, gs[g].skip,
                                                2 * gs[g].room),
                         !.walks = @ + 1]
          ELSE [@ EXCEPT !.storage = gs[g].room, !.pcs = gs[g].cur,
                         !.frames = gs[g].cur,
                         !.pc = IF gs[g].kind = "Capture" THEN "format"
                                ELSE "getbuf"]]
    /\ UNCHANGED <<writerVars, stackPool, bufferPool, nCalls, logVars>>

\* bufferPool.Get() in Take (stack.go lines 109-110): a pooled buffer as it
\* was put back, or a new empty one.
GetBuffer(g) ==
    /\ gs[g].pc = "getbuf"
    /\ \E i \in 0..Len(bufferPool) :
          LET b == IF i = 0 THEN <<>> ELSE bufferPool[i]
          IN /\ bufferPool' = IF i = 0 THEN bufferPool
                              ELSE RemoveAt(bufferPool, i)
             /\ gs' = [gs EXCEPT ![g].buf = b, ![g].got = b,
                                 ![g].pc = "format"]
    /\ UNCHANGED <<writerVars, stackPool, nCalls, logVars>>

\* NewFormatter(buffer), FormatStack(stack) and buffer.String() (stack.go
\* lines 113-115); k is the number of frames the iterator held.
Format(g) ==
    /\ gs[g].pc = "format"
    /\ LET sf == FormatStack(NewFormatter(gs[g].buf), gs[g].frames)
       IN gs' = [gs EXCEPT ![g].buf = sf.b, ![g].result = sf.b,
                           ![g].k = Len(gs[g].frames), ![g].frames = <<>>,
                           ![g].pc = IF gs[g].kind = "Capture" THEN "free"
                                     ELSE "putbuf"]
    /\ UNCHANGED <<writerVars, stackPool, bufferPool, nCalls, logVars>>

\* The deferred bufferPool.Put(buffer) of Take (stack.go line 111).
PutBuffer(g) ==
    /\ gs[g].pc = "putbuf"
    /\ bufferPool' = Append(bufferPool, gs[g].buf)
    /\ gs' = [gs EXCEPT ![g].buf = <<>>, ![g].pc = "free"]
    /\ UNCHANGED <<writerVars, stackPool, nCalls, logVars>>

\* Free (stack.go lines 83-87), deferred in Take: the Stack goes back to the
\* pool with its storage.
Free(g) ==
    /\ gs[g].pc = "free"
    /\ stackPool' = Append(stackPool, gs[g].storage)
    /\ gs' = [gs EXCEPT ![g] = IF gs[g].kind = "Handle"
                                THEN [@ EXCEPT !.pc = "emit"]
                                ELSE Idle]
    /\ UNCHANGED <<writerVars, bufferPool, nCalls, logVars>>

\* ----------------------------------------------------------- logger.go
\* The handler of the logger New (st FALSE) and NewWithStack (st TRUE)
\* return (logger.go lines 73-120): the JSON handler inside a goIDHandler.
\* attrs and groups count what WithAttrs and WithGroup gave the JSON handler.
goIDHandler(st) ==
    [wrapped |-> TRUE, stacktrace |-> st, attrs |-> 0, groups |-> 0]

\* goIDHandler.WithAttrs and WithGroup (logger.go lines 21-28) return what
\* the wrapped JSON handler's method returns; so does a JSON handler.
handlerWith(h, what) ==
    IF what = "attrs"
    THEN [h EXCEPT !.wrapped = FALSE, !.stacktrace = FALSE, !.attrs = @ + 1]
    ELSE [h EXCEPT !.wrapped = FALSE, !.stacktrace = FALSE, !.groups = @ + 1]

\* logger.With(args...): a logger on Handler().WithAttrs(attrs).
WithAttrs(l) ==
    /\ l \in 1..Len(loggers)
    /\ Len(loggers) < MaxLoggers
    /\ loggers' = Append(loggers, handlerWith(loggers[l], "attrs"))
    /\ UNCHANGED <<writerVars, stackVars, emitted>>

\* logger.WithGroup(name): a logger on Handler().WithGroup(name).
WithGroup(l) ==
    /\ l \in 1..Len(loggers)
    /\ Len(loggers) < MaxLoggers
    /\ loggers' = Append(loggers, handlerWith(loggers[l], "groups"))
    /\ UNCHANGED <<writerVars, stackVars, emitted>>

\* The record the JSON handler gets from goroutine g through logger l: the
\* goid attribute it carries and whether it carries the stack attribute.
Record(l, g, goid, stack) ==
    [logger |-> l, by |-> g, goid |-> goid, stack |-> stack]

\* A record logged by goroutine g through logger l from a stack of d frames.
\* goIDHandler.Handle (logger.go lines 31-49) adds goid and, with
\* stacktrace, Take(3), three frames above the caller's on the stack; a
\* JSON handler reached directly adds neither.
Handle(g, l, d) ==
    /\ l \in 1..Len(loggers)
    /\ IF loggers[l].wrapped /\ loggers[l].stacktrace
       THEN /\ capture(g, "Handle", d + HandleSkip + 1, HandleSkip + 1,
                       "Full", l)
            /\ UNCHANGED <<writerVars, bufferPool, logVars>>
       ELSE /\ gs[g].pc = "idle"
            /\ g <= lim.callers
            /\ nCalls < lim.ops
            /\ nCalls' = nCalls + 1
            /\ emitted' = Append(emitted,
                  Record(l, g, IF loggers[l].wrapped THEN g ELSE NoGoid,
                         FALSE))
            /\ UNCHANGED <<writerVars, stackPool, bufferPool, gs, loggers>>

\* h.handler.Handle(ctx, record) after Take(3) returned (logger.go line 43).
Emit(g) ==
    /\ gs[g].pc = "emit"
    /\ emitted' = Append(emitted,
          Record(gs[g].logger, g, g, TRUE))
    /\ gs' = [gs EXCEPT ![g] = Idle]
    /\ UNCHANGED <<writerVars, stackPool, bufferPool, nCalls, loggers>>

\* ------------------------------------------------------- specification
\* The state after construction: the configuration, no open file, and the
\* directory as an earlier run may have left it: empty, or holding the log
\* file that run created at time 0 with old bytes in it and, unless the pid
\* is part of the names, the symlink to it at the base path.
WriterStart(F, MS, MB, P, E, H, C, TF, old, l) ==
    /\ Filename = F /\ MaxSize = MS /\ MaxBackups = MB /\ ProcessID = P
    /\ EnsureFolder = E /\ Header = H /\ Cleaner = C /\ TimeFormat = TF
    /\ file = Nil /\ size = 0 /\ open = 0
    /\ dir = [n \in Tokens |-> IF n = 0 /\ old >= 0 THEN 1 ELSE 0]
    /\ ino = IF old >= 0 THEN <<[content |-> Rep(OldByte, old), mtime |-> 0]>>
             ELSE <<>>
    /\ link = IF old >= 0 /\ ~P THEN 0 ELSE NoLink
    /\ tasks = <<>> /\ now = 0 /\ stderr = 0
    /\ lim = l
    /\ nOps = 0 /\ nFaults = 0
    /\ last = Result("none", 0, 0, 0, "none", World)
    /\ ret = [c \in Callers |-> [n |-> 0, err |-> "none", id |-> 0,
                                 len |-> 0, calls |-> 0]]
    /\ hist = [nRot |-> 0, ever |-> {}, lastRot |-> NoName,
               allSpawned |-> TRUE, lazy |-> FALSE, written |-> 0,
               clean |-> TRUE,
               onlyWrites |-> TRUE, afterWriteRot |-> FALSE,
               closeFailed |-> FALSE, rotFailed |-> FALSE,
               retry |-> FALSE, retried |-> FALSE,
               listedActive |-> FALSE, passes |-> 0, removed |-> {},
               maxRemoved |-> -1, removedActive |-> FALSE, old |-> old]

\* stack.go and logger.go after package initialisation: empty pools, no
\* goroutine in a call, the loggers ls built so far, nothing emitted.
StackStart(ls) ==
    /\ stackPool = <<>> /\ bufferPool = <<>>
    /\ gs = [g \in Callers |-> Idle]
    /\ nCalls = 0
    /\ loggers = ls /\ emitted = <<>>

Start(F, MS, MB, P, E, H, C, TF, old, l) ==
    WriterStart(F, MS, MB, P, E, H, C, TF, old, l) /\ StackStart(<<>>)

Formats == {TimeFormatUnix, TimeFormatUnixMs}

\* One caller, one goroutine at a time, any single I/O failure.
Init ==
    \E H \in {NoHook, 1}, TF \in Formats, old \in {-1, MaxOld} :
        Start(TRUE, 2, 1, FALSE, TRUE, H, FALSE, TF, old,
              [ops |-> MaxOps, faults |-> MaxFaults, tasks |-> 1, callers |-> 1])

\* Rotations in quick succession: no Header, no I/O failure, up to MaxTasks
\* goroutines at once, the default cleanup with MaxBackups 0 or 1.
InitPrune ==
    \E MB \in {0, 1}, TF \in Formats :
        Start(TRUE, 2, MB, FALSE, FALSE, NoHook, FALSE, TF, -1,
              [ops |-> MaxBurst, faults |-> 0, tasks |-> MaxTasks, callers |-> 1])

\* NumCallers callers on a writer without a rotation threshold.
InitConcurrent ==
    \E P \in BOOLEAN, old \in {-1, MaxOld} :
        Start(TRUE, 0, 0, P, FALSE, NoHook, FALSE, TimeFormatUnix, old,
              [ops |-> MaxBurst, faults |-> 0, tasks |-> 1,
               callers |-> NumCallers])

\* One caller making up to MaxBurst calls, any single I/O failure, with and
\* without a Filename, with and without a rotation threshold; the directory
\* holds the log file of an earlier run.
InitSession ==
    \E F \in BOOLEAN, MS \in {0, 1} :
        Start(F, MS, 0, FALSE, FALSE, NoHook, FALSE, TimeFormatUnix, MaxOld,
              [ops |-> MaxBurst, faults |-> MaxFaults, tasks |-> 1,
               callers |-> 1])

\* A writer with a threshold of one byte and no Header, started in the
\* second in which an earlier run left its log file; handler calls may run
\* while goroutines of earlier rotations are still at work.
InitReopen ==
    Start(TRUE, 1, 0, FALSE, FALSE, NoHook, FALSE, TimeFormatUnix, MaxOld,
          [ops |-> MaxBurst, faults |-> MaxFaults, tasks |-> MaxTasks,
           callers |-> 1])

\* The inputs of a handler call in the current state: the time it reads,
\* the I/O call that fails in it and the bytes a failing write transfers.
Times == IF nOps < lim.ops /\ Len(tasks) < lim.tasks THEN now..MaxClock ELSE {}
FaultsNow == IF nFaults < lim.faults THEN Faults ELSE {"none"}
ShortCounts(f) == IF f \in Partial THEN 0..(MaxRec - 1) ELSE {0}

Next ==
    \/ \E t \in Times, c \in Callers, len \in 1..MaxRec, f \in FaultsNow :
          \E k \in ShortCounts(f) : Write(c, len, t, f, k)
    \/ \E t \in Times, f \in FaultsNow : \E k \in ShortCounts(f) : Rotate(t, f, k)
    \/ \E t \in Times, f \in FaultsNow : t = now /\ Close(f)
    \/ \E j \in 1..MaxTasks : TaskRemove(j)
    \/ \E j \in 1..MaxTasks : TaskSymlink(j)
    \/ \E j \in 1..MaxTasks : TaskReaddir(j)
    \/ \E j \in 1..MaxTasks : TaskClean(j)

Spec == Init /\ [][Next]_vars
SpecPrune == InitPrune /\ [][Next]_vars
SpecConcurrent == InitConcurrent /\ [][Next]_vars
SpecSession == InitSession /\ [][Next]_vars
SpecReopen == InitReopen /\ [][Next]_vars

\* stack.go and logger.go: the logger of New (st FALSE) or NewWithStack on
\* a writer that is not written to; n goroutines make up to MaxCalls calls
\* of Capture, Take and the loggers.
StackInit(st, n) ==
    /\ WriterStart(TRUE, 2, 1, FALSE, TRUE, NoHook, FALSE, TimeFormatUnix, -1,
                   [ops |-> MaxCalls, faults |-> 0, tasks |-> 0, callers |-> n])
    /\ StackStart(<<goIDHandler(st)>>)

\* One goroutine.
InitStack == StackInit(FALSE, 1)

\* NumCallers goroutines.
InitPool == \E st \in BOOLEAN : StackInit(st, NumCallers)

NextStack ==
    \/ \E g \in Callers, d \in 1..MaxDepth, skip \in 0..MaxSkip,
          depth \in Depths : Capture(g, d, skip, depth)
    \/ \E g \in Callers, d \in 1..MaxDepth, skip \in 0..MaxSkip :
          Take(g, d, skip)
    \/ \E g \in Callers : CaptureGrow(g)
    \/ \E g \in Callers : GetBuffer(g)
    \/ \E g \in Callers : Format(g)
    \/ \E g \in Callers : PutBuffer(g)
    \/ \E g \in Callers : Free(g)

NextLogger ==
    \/ \E l \in 1..MaxLoggers : WithAttrs(l)
    \/ \E l \in 1..MaxLoggers : WithGroup(l)
    \/ \E g \in Callers, l \in 1..MaxLoggers, d \in 1..MaxDepth :
          Handle(g, l, d)
    \/ \E g \in Callers : CaptureGrow(g)
    \/ \E g \in Callers : GetBuffer(g)
    \/ \E g \in Callers : Format(g)
    \/ \E g \in Callers : PutBuffer(g)
    \/ \E g \in Callers : Free(g)
    \/ \E g \in Callers : Emit(g)

SpecStack == InitStack /\ [][NextStack]_vars

SpecPool == InitPool /\ [][NextStack]_vars
SpecLogger == InitPool /\ [][NextLogger]_vars

\* A goroutine inside Capture keeps running.
SpecStackLive == SpecStack /\ \A g \in Callers : WF_vars(CaptureGrow(g))
\* ----------------------------------------------------------- properties
Bytes(i) == ino[i].content

\* The positions of file i that hold a byte of record id.
Places(i, id) == {p \in 1..Len(Bytes(i)) : Bytes(i)[p] = id}

\* Record id lies in file i whole and in one piece, len bytes long.
Whole(i, id, len) ==
    /\ Cardinality(Places(i, id)) = len
    /\ \A p, q \in Places(i, id) : \A m \in p..q : m \in Places(i, id)

\* C1. With MaxSize > 0 and a Filename, a Write attempts a rotation exactly
\* when it added its bytes to the counter and the counter then exceeds
\* MaxSize; the record lies whole in the file that was open when it was
\* written; and after the rotation the counter is the number of bytes that
\* have reached the newly opened file, all of them header bytes (none
\* without a Header).
C1_RotatesAfterCrossing ==
    (last.op = "Write" /\ MaxSize > 0 /\ Filename) =>
        /\ last.rot <=> (last.added /\ last.afterAdd > MaxSize)
        /\ last.added => Whole(last.before, last.id, last.len)
        /\ last.swapped =>
              /\ size = last.hdrN
              /\ Len(Bytes(file.ino)) = last.base + size
              /\ \A p \in (last.base + 1)..Len(Bytes(file.ino)) :
                    Bytes(file.ino)[p] = HdrByte
              /\ Header = NoHook => size = 0

\* A second or later Write crosses MaxSize and rotates to a new file, which
\* gets its header.
C1_Witness ==
    /\ last.op = "Write" /\ nOps >= 2 /\ last.prevFile # Nil
    /\ last.swapped /\ last.afterAdd > MaxSize
    /\ file.ino # last.before /\ size = 1 /\ Header = 1

\* C9. When the replacement file cannot be opened, the rotation changes
\* nothing: the handle, the counter and the open handles stay as they were,
\* no goroutine is started and the error is returned; a Write returns it
\* with the full count, its bytes being the last of the file still open.
C9_FailedOpenChangesNothing ==
    last.fault = "ropen" =>
        /\ last.err = "open"
        /\ ~last.swapped /\ ~last.closedOld /\ ~last.spawned
        /\ last.op = "Rotate" =>
              /\ file = last.prevFile /\ size = last.prevSize
              /\ open = last.prevOpen /\ Len(ino) = last.prevInodes
        /\ last.op = "Write" =>
              /\ last.n = last.len /\ last.added
              /\ file # Nil /\ file.ino = last.before /\ open = 1
              /\ last.prevFile # Nil =>
                    file = last.prevFile /\ open = last.prevOpen
              /\ size = last.afterAdd
              /\ SubSeq(Bytes(file.ino), Len(Bytes(file.ino)) - last.len + 1,
                        Len(Bytes(file.ino))) = Rep(last.id, last.len)

C9_Witness ==
    /\ last.fault = "ropen" /\ last.op = "Write" /\ last.prevFile # Nil
    /\ last.err = "open" /\ last.n = last.len /\ size > MaxSize
\* C2. A rotation that swaps the handle opens a file other than the one
\* that was active, and the Write after a Write-triggered rotation leaves
\* the active file holding its record and header bytes only.
C2_RotationOpensAnotherFile ==
    LET was == IF last.op = "Write" THEN last.before ELSE last.prevFile.ino
    IN /\ (last.swapped /\ was # 0) => file.ino # was
       /\ (last.op = "Write" /\ hist.afterWriteRot /\ last.added /\ ~last.rot) =>
             \A p \in 1..Len(Bytes(file.ino)) :
                Bytes(file.ino)[p] \in {HdrByte, last.id}

\* C7. Restart: the directory holds the earlier run's log file with
\* S < MaxSize bytes, reachable through the base path.  The first lazy open
\* sets the counter to S, and once the Writes have added MaxSize - S + 1
\* bytes exactly one rotation has happened.
C7_RestartResumesSize ==
    (/\ hist.old >= 0 /\ hist.old < MaxSize /\ Header = NoHook /\ ~ProcessID
     /\ nFaults = 0 /\ hist.onlyWrites /\ nOps >= 1) =>
        /\ nOps = 1 => last.afterAdd = hist.old + last.len
        /\ hist.written = MaxSize - hist.old + 1 => hist.nRot = 1

\* C8. When no directory creation, open or write fails, Write returns
\* (len(p), nil) with the record in the file and Rotate returns nil: what
\* happens to the entry at the base path is never reported.
C8_AuxFailuresNotReturned ==
    (last.op \in {"Write", "Rotate"} /\ last.fault = "none" /\ Filename) =>
        /\ last.err = "nil"
        /\ last.op = "Write" =>
              /\ last.n = last.len
              /\ last.before # 0
              /\ Whole(last.before, last.id, last.len)

\* C10. When the header step of a rotation fails (Stat, or the write of the
\* header bytes), the rotation returns an error, the new file is the active
\* one and the old handle is closed.
C10_HeaderFailureIsReported ==
    last.fault \in {"rstat", "rhdr"} =>
        /\ last.err # "nil"
        /\ last.swapped /\ file # Nil /\ open = 1
        /\ last.prevFile # Nil => last.closedOld

\* All goroutines have ended, every rotation started one, no handler call
\* returned an error and no file was opened since the last rotation.
Settled ==
    /\ tasks = <<>> /\ hist.nRot >= 1 /\ hist.allSpawned /\ ~hist.lazy
    /\ nFaults = 0 /\ hist.clean

\* C3. Default cleanup, MaxBackups > 0: once the pruning passes have ended,
\* at most MaxBackups log files other than the active one are left, and no
\* file left is older than a file that was removed.
C3_RetentionBound ==
    (~Cleaner /\ MaxBackups > 0 /\ Settled /\ file # Nil) =>
        /\ Cardinality(Listing \ {file.name}) <= MaxBackups
        /\ \A n \in Listing : ModTimeUnix(dir[n]) >= hist.maxRemoved

\* C4. MaxBackups = 0 and no Cleaner: nothing is ever removed, every file
\* that was the active one is still there.
C4_ZeroKeepsAll ==
    (MaxBackups = 0 /\ ~Cleaner) =>
        /\ hist.removed = {}
        /\ \A n \in hist.ever : dir[n] # 0

\* C5. PID not in the names: once the goroutines of the rotations have
\* ended, the entry at the base path names the file the last rotation opened.
C5_LinkFollowsLatestRotation ==
    (~ProcessID /\ Settled) => link = hist.lastRot

\* C6. NumCallers callers, one Write each of the same size, MaxSize = 0, no
\* I/O failure: every Write returns (len, nil) and the records lie whole in
\* one file that holds NumCallers times the record size of record bytes.
C6_ConcurrentWritesAllLand ==
    (/\ MaxSize = 0 /\ Header = NoHook /\ nFaults = 0 /\ hist.onlyWrites
     /\ nOps = NumCallers
     /\ \A c \in Callers : ret[c].calls = 1 /\ ret[c].len = ret[1].len) =>
        /\ \A c \in Callers : ret[c].err = "nil" /\ ret[c].n = ret[c].len
        /\ file # Nil
        /\ \A c \in Callers : Whole(file.ino, ret[c].id, ret[c].len)
        /\ Cardinality({p \in 1..Len(Bytes(file.ino)) : Bytes(file.ino)[p] > 0})
              = NumCallers * ret[1].len

\* C11. When the write of the record to the file fails after n < len(p)
\* bytes, Write returns (n, err), does not retry and does not rotate, and
\* the counter has advanced by n: it is still the number of bytes added to
\* the open file since it was opened.
C11_PartialWriteCounted ==
    (last.op = "Write" /\ last.fault = "write") =>
        LET was == IF last.prevFile # Nil THEN last.prevSize
                   ELSE last.base + last.hdrN
        IN /\ last.err = "write" /\ last.n < last.len
           /\ ~last.rot /\ file # Nil /\ file.ino = last.before
           /\ Cardinality(Places(file.ino, last.id)) = last.n
           /\ size = was + last.n

\* C12. Close leaves no handle and a counter of 0, also when closing the
\* file reports an error, and releases the handle it found; on a writer
\* without an open file it returns nil and changes nothing, so that a
\* second Close leaves the state the first one left.
C12_CloseIsIdempotent ==
    [][(nOps' = nOps + 1 /\ last'.op = "Close") =>
          /\ file' = Nil /\ size' = 0
          /\ file # Nil =>
                /\ open' = open - 1
                /\ last'.err = IF last'.fault = "close" THEN "close" ELSE "nil"
          /\ file = Nil =>
                /\ last'.err = "nil"
                /\ UNCHANGED <<wVars, fsVars, stderr, tasks>>]_vars

\* A Close after a Close that closed the open file and reported an error.
C12_Witness ==
    /\ last.op = "Close" /\ last.prevFile = Nil /\ last.err = "nil"
    /\ hist.closeFailed /\ hist.ever # {} /\ file = Nil /\ size = 0

\* C13. Without a Filename and without an open file, Write hands the bytes
\* to os.Stderr and returns what that write returns; the handle stays nil,
\* the counter, the directory and the goroutines stay as they were: no file
\* is created and no rotation is attempted, whatever MaxSize is.
C13_FallbackTouchesNothing ==
    [][(nOps' = nOps + 1 /\ last'.op = "Write" /\ ~Filename /\ file = Nil) =>
          /\ stderr' = stderr + last'.n
          /\ last'.fault # "stderr" =>
                last'.n = last'.len /\ last'.err = "nil"
          /\ last'.fault = "stderr" =>
                last'.n < last'.len /\ last'.err = "stderr"
          /\ ~last'.rot /\ ~last'.created
          /\ file' = Nil
          /\ UNCHANGED <<wVars, fsVars, tasks>>]_vars

\* MaxSize > 0: Writes only, which have sent more than MaxSize bytes to
\* os.Stderr.
C13_Witness ==
    /\ ~Filename /\ MaxSize > 0 /\ hist.onlyWrites /\ nOps >= 2
    /\ last.op = "Write" /\ stderr > MaxSize /\ file = Nil /\ size = 0

\* C14. The string Take returns is the rendering of the stack that call
\* captured into an empty buffer: nothing an earlier Take wrote into a
\* pooled buffer comes back, and the text begins with the first frame.
C14_TakeRendersOwnStack ==
    \A g \in Callers :
        (gs[g].kind = "Take" /\ gs[g].pc \in {"putbuf", "free"}) =>
            gs[g].result = FormatStack(NewFormatter(<<>>), gs[g].pcs).b

\* C15. Every record logged through the logger of New or NewWithStack, or
\* through a logger derived from it with With or WithGroup, carries the goid
\* of the goroutine that logged it and, with stack tracing on, the stack.
C15_EveryRecordAnnotated ==
    \A i \in 1..Len(emitted) :
        /\ emitted[i].goid = emitted[i].by
        /\ loggers[1].stacktrace => emitted[i].stack

\* The frames of goroutine g's stack beyond the skipped ones, innermost
\* first.
Available(g) ==
    [j \in 1..(IF gs[g].d > gs[g].skip THEN gs[g].d - gs[g].skip ELSE 0) |->
        gs[g].skip + j]

\* Goroutine g holds the Stack a Capture has returned.
Captured(g) == gs[g].pc \in {"getbuf", "format", "putbuf", "free"}

\* C16. Capture with depth Full ends, and the Stack it returns holds every
\* frame beyond the skipped ones, fewer than its storage has entries; the
\* storage was doubled, and the stack walked again, exactly as long as a walk
\* filled it.  Capture with depth First returns at most one frame.
C16_CaptureFullIsComplete ==
    /\ [](\A g \in Callers : Captured(g) =>
            IF gs[g].depth = "Full"
            THEN /\ gs[g].pcs = Available(g)
                 /\ Len(gs[g].pcs) < gs[g].storage
                 /\ gs[g].walks > 1 => gs[g].storage \div 2 <= Len(gs[g].pcs)
            ELSE /\ Len(gs[g].pcs) <= 1
                 /\ gs[g].pcs = SubSeq(Available(g), 1, Len(gs[g].pcs))
                 /\ Len(Available(g)) > 0 => Len(gs[g].pcs) = 1)
    /\ \A g \in Callers : (gs[g].pc = "grow") ~> Captured(g)

\* A Capture with depth Full that doubled the storage twice.
C16_Witness ==
    \E g \in Callers :
        /\ Captured(g) /\ gs[g].depth = "Full" /\ gs[g].walks >= 3
        /\ Len(gs[g].pcs) >= 2 * StorageSize
        /\ gs[g].storage > Len(gs[g].pcs)

\* One frame entry: function, newline, tab, file:line.
Entry(p) == <<Function(p), NL, TAB, File(p), COLON, Line(p)>>

\* The first n frames of fr as entries with one newline between consecutive
\* ones and none at either end.
Entries(fr, n) ==
    [i \in 1..(IF n <= 0 THEN 0 ELSE 7 * n - 1) |->
        IF (i - 1) % 7 = 6 THEN NL
        ELSE Entry(fr[((i - 1) \div 7) + 1])[((i - 1) % 7) + 1]]

\* Goroutine g has formatted the Stack it captured.
Formatted(g) == gs[g].pc \in {"putbuf", "free"}

\* C17. FormatStack on a Stack whose iterator holds k frames adds to the
\* buffer the entries of the first k - 1 of them, separated by single
\* newlines, and nothing for k <= 1, as after a Capture with depth First.
C17_FormatStackSkipsLast ==
    \A g \in Callers : Formatted(g) =>
        /\ gs[g].k = Len(gs[g].pcs)
        /\ gs[g].result = gs[g].got \o Entries(gs[g].pcs, gs[g].k - 1)
        /\ gs[g].k <= 1 => gs[g].result = gs[g].got
        /\ gs[g].depth = "First" => gs[g].result = gs[g].got

\* A Stack of three or more frames has been formatted.
C17_Witness ==
    \E g \in Callers :
        /\ Formatted(g) /\ gs[g].k >= 3
        /\ Len(gs[g].result) = Len(gs[g].got) + 7 * (gs[g].k - 1) - 1

\* C18. The active log file is in no candidate list of a pruning pass, and
\* the default cleanup never removes the file the writer has open.
C18_ActiveFileNeverCandidate ==
    ~hist.listedActive /\ ~hist.removedActive

\* C19. After every call of Write, Rotate and Close, failed ones included,
\* the handles opened and not closed are the one in w.file, or none when
\* w.file is nil; a rotation closes the old handle only when it has opened
\* the new file, and keeps it when the open fails.
C19_AtMostOneHandle ==
    /\ open = IF file # Nil THEN 1 ELSE 0
    /\ last.closedOld => last.swapped /\ file # Nil
    /\ (last.swapped /\ last.op = "Rotate" /\ last.prevFile # Nil) =>
          last.closedOld
    /\ last.fault = "ropen" =>
          /\ ~last.closedOld
          /\ last.prevFile # Nil => file = last.prevFile

\* Two files have been the active one, an I/O call has failed, and the last
\* call, a Close, released the handle.
C19_Witness ==
    /\ Cardinality(hist.ever) >= 2 /\ hist.nRot >= 1 /\ nFaults >= 1
    /\ last.op = "Close" /\ last.prevFile # Nil /\ open = 0 /\ file = Nil

\* C20. PID not in the names: whenever no goroutine is between its
\* os.Remove and its os.Symlink of the base path, the entry at the base
\* path, if there is one, names a file that exists.
C20_LinkNeverDangles ==
    (~ProcessID /\ \A j \in 1..Len(tasks) : tasks[j].pc # "symlink") =>
        (link # NoLink => dir[link] # 0)

\* C21. MaxSize > 0, a Filename and no Header: after a Write that returns
\* nil the counter is at most MaxSize, and the counter is above MaxSize
\* only when the rotation a Write attempted has failed.
C21_CounterWithinMaxSize ==
    (MaxSize > 0 /\ Filename /\ Header = NoHook) =>
        /\ (last.op = "Write" /\ last.err = "nil") => size <= MaxSize
        /\ size > MaxSize => hist.rotFailed

\* C22. A rotation a Write attempted and that failed to open the
\* replacement file is retried: until a rotation swaps the handle (or the
\* writer is closed) the counter stays above MaxSize, every Write that adds
\* its bytes attempts the rotation, and a Write during which nothing fails
\* rotates and leaves the over-threshold file for another one.
C22_FailedRotationRetried ==
    /\ hist.retry => (size > MaxSize /\ file # Nil)
    /\ (last.op = "Write" /\ hist.retried /\ last.added) => last.rot
    /\ (last.op = "Write" /\ hist.retried /\ last.fault = "none") =>
          /\ last.swapped /\ size <= MaxSize
          /\ file.ino # last.before
====
